---- MODULE Spec2Model ----
(***************************************************************************)
(* Model of the rust-qdrant HTTP gateway: the axum router built by         *)
(* create_router (src/routes.rs), the two middlewares (src/middleware),    *)
(* the three route handlers (src/handlers), the response envelope          *)
(* (src/types) and the two service clients (src/services).                 *)
(*                                                                         *)
(* Every request is a small process: it is received, routed, passes the    *)
(* middlewares of the matched route, runs its handler, possibly awaits one *)
(* upstream call, and is answered.  Requests interleave at every step.     *)
(***************************************************************************)
EXTENDS Integers, Sequences, FiniteSets, TLC

(* ------------------------------ bounds --------------------------------- *)
\* longest request text / message (in characters)
MaxLen == 2
\* dimensionality of the provider's embeddings
EmbDim == 2
\* most entries in the provider's reply list (data / choices)
MaxData == 2
\* most points a collection of the vector store holds
MaxPoints == 1
\* requests in flight at once in the concurrent specification
NumReqs == 2
\* width in bits of the integers of a JSON number (i64 and u64, scaled down)
IntBits == 4
\* bits of the significand of a double (f64, scaled down with the integers)
MantBits == 2
\* longest JSON array converted
MaxArr == 3

(* --------------------------- small value sets -------------------------- *)
\* Option<T>: None is the empty sequence, Some(x) a sequence of one element
None == <<>>
Some(x) == <<x>>

\* characters of a request text: two kinds of whitespace and a letter
Chars == {" ", "\n", "a"}
Strings(n) == UNION {[1..k -> Chars] : k \in 0..n}

\* the abstract float values an embedding is made of
Floats == {1, 2}
Embeddings == [1..EmbDim -> Floats]
SeqsUpTo(S, n) == UNION {[1..k -> S] : k \in 0..n}

\* causes an upstream call can fail with
ErrCauses == {"timeout", "quota exceeded"}

Points == 1..MaxPoints
Collections == {"documents", "archive"}

(* ------------------------------ routes.rs ------------------------------ *)
EMBED == "/api/embed"
CHAT == "/api/chat"
RESET == "/api/reset"
\* the paths create_router registers
Routes == {EMBED, CHAT, RESET}

\* request targets a client may send: the routes and a path that has none
Paths == Routes \cup {"/api/search"}
Methods == {"POST", "GET"}

(* --------------------------- request inputs ---------------------------- *)
\* the x-api-key header: absent, bytes that are no visible ASCII (to_str
\* fails), or a string
HdrAbsent == [kind |-> "absent", value |-> ""]
HdrOpaque == [kind |-> "opaque", value |-> ""]
HdrText(s) == [kind |-> "text", value |-> s]
KeyTexts == {"secret", "SECRET", "secre"}
Headers == {HdrAbsent, HdrOpaque} \cup {HdrText(s) : s \in KeyTexts}

\* the request body: a JSON object of the expected shape carrying a string,
\* or one the Json extractor rejects
BodyJson(s) == [kind |-> "json", text |-> s]
BodySyntax == [kind |-> "syntax", text |-> <<>>]
BodyShape == [kind |-> "shape", text |-> <<>>]
Bodies == {BodySyntax, BodyShape} \cup {BodyJson(s) : s \in Strings(MaxLen)}

MkRequest(m, p, h, b) == [method |-> m, path |-> p, header |-> h, body |-> b]
NoRequest == MkRequest("", "", HdrAbsent, BodySyntax)

\* every request of the bounded input space
AllInputs == {MkRequest(m, p, h, b) : m \in Methods, p \in Paths, h \in Headers, b \in Bodies}
\* the requests the concurrent specification interleaves: well-formed POSTs
\* to the three routes with each kind of credential
ConcInputs ==
    {MkRequest("POST", p, h, BodyJson(<<"a">>)) :
        p \in Routes, h \in {HdrAbsent, HdrText("secret"), HdrText("SECRET")}}

(* ------------------------------ config --------------------------------- *)
\* the process environment: each variable is unset (None) or holds a string
EnvNames == {"OPENAI_API_KEY", "QDRANT_URL", "QDRANT_API_KEY", "COLLECTION_NAME", "API_KEY"}
EnvValues(n) ==
    CASE n = "OPENAI_API_KEY" -> {"sk-test"}
      [] n = "QDRANT_URL" -> {"http://qdrant:6334"}
      [] n = "QDRANT_API_KEY" -> {"qk"}
      [] n = "COLLECTION_NAME" -> {"archive"}
      [] OTHER -> {"secret"}
Envs == {e \in [EnvNames -> {None} \cup {Some(v) : v \in UNION {EnvValues(n) : n \in EnvNames}}] :
            \A n \in EnvNames : e[n] = None \/ e[n][1] \in EnvValues(n)}

\* Config (config/mod.rs)
Config(ok, url, qk, c, k) ==
    [openai_api_key |-> ok, qdrant_url |-> url, qdrant_api_key |-> qk,
     collection_name |-> c, api_key |-> k]
\* no Config has been built yet
NoConfig == Config("", "", None, "", "")

\* a Config as a local deployment has it: the gateway key and the collection
\* vary, the vector store is the default one without credential
MkConfig(k, c) == Config("sk-test", "http://localhost:6333", None, c, k)
Configs == {MkConfig(k, c) : k \in {"secret", "SECRET"}, c \in Collections}

\* an environment Config::from_env reads cfg from
EnvFor(cfg) ==
    [n \in EnvNames |->
        CASE n = "OPENAI_API_KEY" -> Some(cfg.openai_api_key)
          [] n = "QDRANT_URL" -> Some(cfg.qdrant_url)
          [] n = "QDRANT_API_KEY" -> cfg.qdrant_api_key
          [] n = "COLLECTION_NAME" -> Some(cfg.collection_name)
          [] OTHER -> Some(cfg.api_key)]

\* Option::unwrap_or_else(|_| default) on env::var
UnwrapOr(o, default) == IF o = None THEN default ELSE o[1]

\* mutant of from_env: API_KEY falls back to the empty string when unset
from_env_lenient(e) ==
    IF e["OPENAI_API_KEY"] = None
    THEN [kind |-> "err", cause |-> "environment variable not found"]
    ELSE [kind |-> "ok",
          value |-> Config(e["OPENAI_API_KEY"][1],
                           UnwrapOr(e["QDRANT_URL"], "http://localhost:6333"),
                           e["QDRANT_API_KEY"],
                           UnwrapOr(e["COLLECTION_NAME"], "documents"),
                           UnwrapOr(e["API_KEY"], ""))]

\* Config::from_env: `?` on OPENAI_API_KEY and API_KEY, defaults for
\* QDRANT_URL and COLLECTION_NAME, .ok() for QDRANT_API_KEY
from_env(e) ==
    IF e["OPENAI_API_KEY"] = None \/ e["API_KEY"] = None
    THEN [kind |-> "err", cause |-> "environment variable not found"]
    ELSE [kind |-> "ok",
          value |-> Config(e["OPENAI_API_KEY"][1],
                           UnwrapOr(e["QDRANT_URL"], "http://localhost:6333"),
                           e["QDRANT_API_KEY"],
                           UnwrapOr(e["COLLECTION_NAME"], "documents"),
                           e["API_KEY"][1])]

(* ------------------------ types/mod.rs: envelope ----------------------- *)
\* payload values as they appear in the JSON body
JNull == [t |-> "null"]
JArray(xs) == [t |-> "array", items |-> xs]
JObject(fs) == [t |-> "object", fields |-> fs]

\* T::default() of the two payload types the handlers use: Vec<f32> and
\* serde_json::Value
DefaultOf(T) == IF T = "vec" THEN JArray(<<>>) ELSE JNull

\* ApiResponse::success
ApiSuccess(data) == [data |-> data, status |-> "success", error |-> None]

\* ApiResponse::error
ApiError(T, msg) == [data |-> DefaultOf(T), status |-> "error", error |-> Some(msg)]

\* mutant of Serialize: the error field is written even when it is None
SerializeAlways(env) ==
    [data |-> env.data, status |-> env.status,
     error |-> IF env.error = None THEN "" ELSE env.error[1]]

\* #[derive(Serialize)] with skip_serializing_if = "Option::is_none" on error
Serialize(env) ==
    IF env.error = None
    THEN [data |-> env.data, status |-> env.status]
    ELSE [data |-> env.data, status |-> env.status, error |-> env.error[1]]

(* ----------------------------- responses ------------------------------- *)
EmptyBody == [kind |-> "empty"]
TextBody(msg) == [kind |-> "text", text |-> msg]
JsonBody(env) == [kind |-> "json", json |-> Serialize(env)]
MkResponse(st, body) == [status |-> st, body |-> body]
\* no response has been produced yet
NoResponse == MkResponse(0, EmptyBody)
\* a bare StatusCode turned into a response: the status and an empty body
StatusOnly(st) == MkResponse(st, EmptyBody)
\* Ok(Json(envelope)): HTTP 200 with the serialized envelope
OkJson(env) == MkResponse(200, JsonBody(env))
\* StatusCode::is_success
IsSuccess(st) == st >= 200 /\ st < 300

(* ------------------------- middleware/mod.rs --------------------------- *)
\* HeaderValue::to_str().ok() on headers().get("x-api-key")
HeaderToStr(h) == IF h.kind = "text" THEN Some(h.value) ELSE None

\* mutant of AuthStatus: the key is compared without regard to case
LowerCase(s) == IF s = "SECRET" THEN "secret" ELSE s
AuthStatusNoCase(h, cfg) ==
    LET api_key == HeaderToStr(h)
    IN  IF api_key = None THEN "missing"
        ELSE IF LowerCase(api_key[1]) # LowerCase(cfg.api_key) THEN "invalid"
        ELSE "ok"

\* the two checks of auth_middleware: "missing", "invalid" or "ok"
AuthStatus(h, cfg) ==
    LET api_key == HeaderToStr(h)
    IN  IF api_key = None THEN "missing"
        ELSE IF api_key[1] # cfg.api_key THEN "invalid"
        ELSE "ok"

\* mutant of AfterAuth: the rejection is logged but the request runs on
AfterAuthAlwaysNext(st) == "method"

\* where auth_middleware sends the request: next.run(request) or Err(401)
AfterAuth(st) == IF st = "ok" THEN "method" ELSE "logging_exit"

LogRec(level, msg, detail) == [level |-> level, msg |-> msg, detail |-> detail]

(* --------------------------- handlers/mod.rs --------------------------- *)
\* char::is_whitespace on the characters a text can hold
IsWhitespace(c) == c \in {" ", "\n", "\t", "\r"}

RECURSIVE TrimStart(_)
TrimStart(s) ==
    IF s = <<>> THEN s
    ELSE IF IsWhitespace(Head(s)) THEN TrimStart(Tail(s)) ELSE s

RECURSIVE TrimEnd(_)
TrimEnd(s) ==
    IF s = <<>> THEN s
    ELSE IF IsWhitespace(s[Len(s)]) THEN TrimEnd(SubSeq(s, 1, Len(s) - 1)) ELSE s

\* str::trim
Trim(s) == TrimEnd(TrimStart(s))

\* mutant of IsBlank: is_empty() without trim()
IsBlankNoTrim(s) == s = <<>>

\* payload.text.trim().is_empty()
IsBlank(s) == Trim(s) = <<>>

\* the rejection of the Json extractor: 400 for a syntax error, 422 for JSON
\* that does not deserialize into the request struct
JsonRejection(body) ==
    IF body.kind = "syntax"
    THEN MkResponse(400, TextBody("Failed to parse the request body as JSON"))
    ELSE MkResponse(422, TextBody("Failed to deserialize the JSON body into the target type"))

\* mutant of UpstreamFailureResponse: the cause is sent as the body
UpstreamFailureEcho(cause) == MkResponse(500, TextBody(cause))

\* map_err(|e| { error!(...); StatusCode::INTERNAL_SERVER_ERROR })
UpstreamFailureResponse(cause) == StatusOnly(500)

(* -------------------------- services/openai.rs ------------------------- *)
ResultErr(cause) == [kind |-> "err", cause |-> cause]
ResultOk(v) == [kind |-> "ok", value |-> v]
\* the task unwound: an index past the end of a Vec
ResultPanic == [kind |-> "panic"]

\* what the embeddings endpoint can answer: an error, or a reply whose data
\* list holds 0..MaxData embeddings of EmbDim floats
EmbedOutcomes ==
    {ResultErr(c) : c \in ErrCauses}
        \cup {ResultOk([data |-> d]) : d \in SeqsUpTo(Embeddings, MaxData)}

\* mutant of FirstEmbedding: the last entry of the reply instead of the first
LastEmbedding(data) == data[Len(data)]

\* response.data[0].embedding
FirstEmbedding(data) == data[1]

\* OpenAIService::get_embedding on the provider's outcome
get_embedding(outcome) ==
    IF outcome.kind = "err" THEN ResultErr(outcome.cause)
    ELSE IF Len(outcome.value.data) = 0 THEN ResultPanic
    ELSE ResultOk(FirstEmbedding(outcome.value.data))

UsageRec(p, c, t) == [prompt_tokens |-> p, completion_tokens |-> c, total_tokens |-> t]
Contents == {None, Some("Paris"), Some("")}
UsageOptions == {None, Some(UsageRec(3, 4, 7))}

\* what the chat endpoint can answer: an error, or a reply with 0..MaxData
\* choices (each with an optional content) and an optional usage
ChatOutcomes ==
    {ResultErr(c) : c \in ErrCauses}
        \cup {ResultOk([choices |-> ch, usage |-> u]) :
                ch \in SeqsUpTo(Contents, MaxData), u \in UsageOptions}

\* Option::unwrap_or_default on the content, map_or(0, ..) on the usage
UnwrapOrDefault(o) == IF o = None THEN "" ELSE o[1]
UsageOrZero(u) == IF u = None THEN UsageRec(0, 0, 0) ELSE u[1]

\* OpenAIService::generate_completion on the provider's outcome
generate_completion(outcome) ==
    IF outcome.kind = "err" THEN ResultErr(outcome.cause)
    ELSE IF Len(outcome.value.choices) = 0 THEN ResultPanic
    ELSE ResultOk([response |-> UnwrapOrDefault(outcome.value.choices[1]),
                   usage |-> UsageOrZero(outcome.value.usage)])

(* -------------------------- services/qdrant.rs ------------------------- *)
\* a filter is a conjunction of conditions; a condition is the set of points
\* it accepts.  Filter::default() has no condition.
MkFilter(must, must_not) == [must |-> must, must_not |-> must_not]
Matches(p, f) == (\A c \in f.must : p \in c) /\ (\A c \in f.must_not : p \notin c)

\* mutant of DeleteAllFilter: a filter with a condition no point satisfies
DeleteNoneFilter == MkFilter({{}}, {})

\* the selector delete_all_points sends: Filter::default()
DeleteAllFilter == MkFilter({}, {})

\* the DeletePoints request delete_all_points builds
DeletePointsRequest(cfg) ==
    [svc |-> "qdrant.delete_points", collection |-> cfg.collection_name,
     filter |-> DeleteAllFilter]

\* the vector store applying a DeletePoints request
ApplyDelete(st, call) ==
    [st EXCEPT ![call.collection] = {p \in @ : ~Matches(p, call.filter)}]

StoreOutcomes == {ResultErr(c) : c \in ErrCauses} \cup {ResultOk("deleted")}

\* ---- json_to_qdrant_value ----
RECURSIVE Pow2(_)
Pow2(n) == IF n = 0 THEN 1 ELSE 2 * Pow2(n - 1)
RECURSIVE BitLen(_)
BitLen(n) == IF n = 0 THEN 0 ELSE 1 + BitLen(n \div 2)

\* i64::MIN, i64::MAX and u64::MAX at the model's width
I64Min == 0 - Pow2(IntBits - 1)
I64Max == Pow2(IntBits - 1) - 1
U64Max == Pow2(IntBits) - 1

\* serde_json::Number: N::PosInt(u64), N::NegInt(i64) (always negative) or
\* N::Float(f64).  A double is written as its value in halves (5 is 2.5).
PosInt(v) == [kind |-> "posint", v |-> v]
NegInt(v) == [kind |-> "negint", v |-> v]
Float(h) == [kind |-> "float", v |-> h]

\* serde_json::Value
JBool(b) == [t |-> "bool", b |-> b]
JNumber(n) == [t |-> "number", n |-> n]
JString(str) == [t |-> "string", s |-> str]

\* qdrant_client::qdrant::value::Kind
QNull == [kind |-> "NullValue"]
QBool(b) == [kind |-> "BoolValue", bool_value |-> b]
QInteger(i) == [kind |-> "IntegerValue", integer_value |-> i]
QDouble(h) == [kind |-> "DoubleValue", double_value |-> h]
QString(str) == [kind |-> "StringValue", string_value |-> str]
QList(vs) == [kind |-> "ListValue", values |-> vs]
QStruct(fs) == [kind |-> "StructValue", fields |-> fs]

\* `n as f64` for n >= 0: the nearest value with MantBits significant bits,
\* ties to even
NearestDouble(n) ==
    LET k == BitLen(n)
    IN  IF k <= MantBits THEN n
        ELSE LET q == Pow2(k - MantBits)
                 lo == (n \div q) * q
                 rem == n - lo
             IN  IF 2 * rem < q THEN lo
                 ELSE IF 2 * rem > q THEN lo + q
                 ELSE IF (n \div q) % 2 = 0 THEN lo ELSE lo + q

\* mutant of as_i64: a double without fraction counts as an integer
as_i64_whole(n) ==
    IF n.kind = "posint" THEN (IF n.v <= I64Max THEN Some(n.v) ELSE None)
    ELSE IF n.kind = "negint" THEN Some(n.v)
    ELSE IF n.v % 2 = 0 THEN Some(n.v \div 2) ELSE None

\* Number::as_i64
as_i64(n) ==
    IF n.kind = "posint" THEN (IF n.v <= I64Max THEN Some(n.v) ELSE None)
    ELSE IF n.kind = "negint" THEN Some(n.v)
    ELSE None

\* mutant of as_f64: an integer has no value as a double
as_f64_floats_only(n) ==
    IF n.kind = "float" THEN Some(n.v) ELSE None

\* Number::as_f64 (in halves)
as_f64(n) ==
    IF n.kind = "posint" THEN Some(2 * NearestDouble(n.v))
    ELSE IF n.kind = "negint" THEN Some(0 - 2 * NearestDouble(0 - n.v))
    ELSE Some(n.v)

\* QdrantService::json_to_qdrant_value
RECURSIVE json_to_qdrant_value(_)
json_to_qdrant_value(value) ==
    CASE value.t = "null" -> QNull
      [] value.t = "bool" -> QBool(value.b)
      [] value.t = "number" ->
            IF as_i64(value.n) # None THEN QInteger(as_i64(value.n)[1])
            ELSE IF as_f64(value.n) # None THEN QDouble(as_f64(value.n)[1])
            ELSE QNull
      [] value.t = "string" -> QString(value.s)
      [] value.t = "array" ->
            QList([i \in 1..Len(value.items) |-> json_to_qdrant_value(value.items[i])])
      [] OTHER ->
            QStruct([k \in DOMAIN value.fields |-> json_to_qdrant_value(value.fields[k])])

\* the JSON values converted: every scalar, the arrays of up to MaxArr and
\* the objects over a few scalars, and values nested one level deeper
JsonNumbers ==
    {JNumber(PosInt(v)) : v \in 0..U64Max}
        \cup {JNumber(NegInt(v)) : v \in I64Min..(0 - 1)}
        \cup {JNumber(Float(h)) : h \in {0 - 3, 2, 5, 2 * Pow2(IntBits - 1)}}
JsonScalars ==
    {JNull, JBool(TRUE), JBool(FALSE), JString("x"), JString("")} \cup JsonNumbers
JsonCore ==
    {JNull, JBool(TRUE), JString("x"), JNumber(PosInt(1)), JNumber(Float(5)),
     JNumber(PosInt(U64Max))}
JsonKeys == {"a", "b"}
ArraysOf(S) == {JArray(xs) : xs \in SeqsUpTo(S, MaxArr)}
ObjectsOf(S) == UNION {{JObject(f) : f \in [K -> S]} : K \in SUBSET JsonKeys}
JsonInner ==
    {JNumber(NegInt(0 - 1)), JArray(<<JBool(TRUE), JNull, JString("x")>>),
     JObject([a |-> JNumber(Float(2))])}
\* {"a": 1, "b": [true, null, "x"], "c": 2.5}
JsonExample ==
    JObject([a |-> JNumber(PosInt(1)),
             b |-> JArray(<<JBool(TRUE), JNull, JString("x")>>),
             c |-> JNumber(Float(5))])
JsonValues ==
    JsonScalars \cup ArraysOf(JsonCore) \cup ObjectsOf(JsonCore)
        \cup ArraysOf(JsonInner) \cup ObjectsOf(JsonInner) \cup {JsonExample}

\* the requests the two provider calls send
EmbeddingRequestCall(text) == [svc |-> "openai.embeddings", input |-> text]
ChatRequestCall(text) == [svc |-> "openai.chat", input |-> text]

(* ------------------------------- state --------------------------------- *)
VARIABLES
    config,     \* AppState.config, shared by every request (state.rs)
    store,      \* the vector store: collection name -> set of points
    req,        \* req[r]: the request in slot r
    pc,         \* pc[r]: where request r stands in the pipeline
    resp,       \* resp[r]: the response produced for r (status 0: none yet)
    trail,      \* trail[r]: the stages r has entered, in order
    log,        \* log[r]: the tracing records written while handling r
    calls,      \* calls[r]: the upstream requests issued for r, in order
    upstream,   \* upstream[r]: the outcome of r's upstream call, once back
    env,        \* the process environment main starts in
    boot,       \* where main stands: its position and the error it ended with
    conv        \* conv[i]: a JSON value and the structured value it became

vars == <<config, store, req, pc, resp, trail, log, calls, upstream, env, boot, conv>>

\* what a step of a request leaves alone
outside == <<env, boot, conv>>

Reqs == DOMAIN pc
NoOutcome == [kind |-> "none"]

\* main's position: "start", "configured", "built", "listening", or
\* "exited" with the error main returned
BootAt(where) == [pc |-> where, err |-> ""]
BootExited(err) == [pc |-> "exited", err |-> err]
\* the port is bound: TcpListener::bind has returned Ok
Listening == boot.pc = "listening"

\* no conversion has run
NoConversions == <<>>

\* the state once main has built the AppState and the router is serving
InitWith(R, cfgs, stores) ==
    /\ config \in cfgs
    /\ store \in stores
    /\ req = [r \in R |-> NoRequest]
    /\ pc = [r \in R |-> "new"]
    /\ resp = [r \in R |-> NoResponse]
    /\ trail = [r \in R |-> <<>>]
    /\ log = [r \in R |-> <<>>]
    /\ calls = [r \in R |-> <<>>]
    /\ upstream = [r \in R |-> NoOutcome]
    /\ env = EnvFor(config)
    /\ boot = BootAt("listening")
    /\ conv = NoConversions

\* the request slots of the two specifications
OneReq == {1}
ConcReqs == 1..NumReqs

\* one request at a time, over the whole input space
Init == InitWith(OneReq, Configs, [Collections -> SUBSET Points])

\* NumReqs requests in flight, over a populated store
InitConc == InitWith(ConcReqs, {MkConfig("secret", "documents")}, {[c \in Collections |-> Points]})

(* ------------------------------ actions -------------------------------- *)
\* a client sends a request (axum::serve accepts it, main.rs)
Receive(r, inputs) ==
    /\ pc[r] = "new"
    /\ UNCHANGED outside
    /\ Listening
    /\ \E q \in inputs : req' = [req EXCEPT ![r] = q]
    /\ pc' = [pc EXCEPT ![r] = "router"]
    /\ UNCHANGED <<config, store, resp, trail, log, calls, upstream>>

\* mutant of Router: the middlewares are added with layer, so that the
\* fallback is wrapped too
RouterLayerEverywhere(r) ==
    /\ pc[r] = "router"
    /\ UNCHANGED outside
    /\ pc' = [pc EXCEPT ![r] = "logging"]
    /\ UNCHANGED <<config, store, req, resp, trail, log, calls, upstream>>

\* mutant of Router: the logging layer is not the outermost one, a routed
\* request meets the authentication stage first
RouterAuthOutermost(r) ==
    /\ pc[r] = "router"
    /\ UNCHANGED outside
    /\ IF req[r].path \in Routes
       THEN /\ pc' = [pc EXCEPT ![r] = "auth"]
            /\ resp' = resp
       ELSE /\ pc' = [pc EXCEPT ![r] = "done"]
            /\ resp' = [resp EXCEPT ![r] = StatusOnly(404)]
    /\ UNCHANGED <<config, store, req, trail, log, calls, upstream>>

\* create_router: a path with a route enters the route's layers (added with
\* route_layer, the last one outermost); any other path gets the router's
\* fallback, which no route_layer wraps
Router(r) ==
    /\ pc[r] = "router"
    /\ UNCHANGED outside
    /\ IF req[r].path \in Routes
       THEN /\ pc' = [pc EXCEPT ![r] = "logging"]
            /\ resp' = resp
       ELSE /\ pc' = [pc EXCEPT ![r] = "done"]
            /\ resp' = [resp EXCEPT ![r] = StatusOnly(404)]
    /\ UNCHANGED <<config, store, req, trail, log, calls, upstream>>

\* logging_middleware up to next.run(request)
LoggingEnter(r) ==
    /\ pc[r] = "logging"
    /\ UNCHANGED outside
    /\ log' = [log EXCEPT ![r] = Append(@, LogRec("info", "Incoming request", ""))]
    /\ trail' = [trail EXCEPT ![r] = Append(@, "logging")]
    /\ pc' = [pc EXCEPT ![r] = "auth"]
    /\ UNCHANGED <<config, store, req, resp, calls, upstream>>

\* mutant of AuthMiddleware: the key last presented is remembered in the
\* shared context and becomes the key to match
AuthMiddlewareShared(r) ==
    /\ pc[r] = "auth"
    /\ UNCHANGED outside
    /\ LET st == AuthStatus(req[r].header, config)
       IN  /\ pc' = [pc EXCEPT ![r] = AfterAuth(st)]
           /\ resp' = [resp EXCEPT ![r] = IF st = "ok" THEN @ ELSE StatusOnly(401)]
    /\ config' = IF req[r].header.kind = "text"
                 THEN [config EXCEPT !.api_key = req[r].header.value]
                 ELSE config
    /\ trail' = [trail EXCEPT ![r] = Append(@, "auth")]
    /\ UNCHANGED <<store, req, log, calls, upstream>>

\* auth_middleware
AuthMiddleware(r) ==
    /\ pc[r] = "auth"
    /\ UNCHANGED outside
    /\ LET st == AuthStatus(req[r].header, config)
       IN  /\ log' = [log EXCEPT ![r] = Append(@,
                        CASE st = "missing" -> LogRec("warn", "Missing API key in request to", "")
                          [] st = "invalid" -> LogRec("warn", "Invalid API key provided for", "")
                          [] OTHER -> LogRec("info", "Request authenticated successfully", ""))]
           /\ pc' = [pc EXCEPT ![r] = AfterAuth(st)]
           /\ resp' = [resp EXCEPT ![r] = IF st = "ok" THEN @ ELSE StatusOnly(401)]
    /\ trail' = [trail EXCEPT ![r] = Append(@, "auth")]
    /\ UNCHANGED <<config, store, req, calls, upstream>>

\* the route's method router: the routes are registered with post(..), any
\* other method is answered 405
MethodRouter(r) ==
    /\ pc[r] = "method"
    /\ UNCHANGED outside
    /\ IF req[r].method = "POST"
       THEN /\ pc' = [pc EXCEPT ![r] = "handler"]
            /\ resp' = resp
       ELSE /\ pc' = [pc EXCEPT ![r] = "logging_exit"]
            /\ resp' = [resp EXCEPT ![r] = StatusOnly(405)]
    /\ UNCHANGED <<config, store, req, trail, log, calls, upstream>>

\* handle_embed up to the await on get_embedding (the Json extractor first)
HandleEmbed(r) ==
    /\ pc[r] = "handler"
    /\ UNCHANGED outside
    /\ req[r].path = EMBED
    /\ LET body == req[r].body
       IN  IF body.kind # "json"
           THEN /\ resp' = [resp EXCEPT ![r] = JsonRejection(body)]
                /\ pc' = [pc EXCEPT ![r] = "logging_exit"]
                /\ trail' = [trail EXCEPT ![r] = Append(@, "extract")]
                /\ UNCHANGED <<log, calls>>
           ELSE IF IsBlank(body.text)
           THEN /\ resp' = [resp EXCEPT ![r] = OkJson(ApiError("vec", "Text cannot be empty"))]
                /\ pc' = [pc EXCEPT ![r] = "logging_exit"]
                /\ trail' = [trail EXCEPT ![r] = @ \o <<"extract", "handler">>]
                /\ log' = [log EXCEPT ![r] = Append(@,
                             LogRec("error", "Empty text provided for embedding", ""))]
                /\ calls' = calls
           ELSE /\ calls' = [calls EXCEPT ![r] = Append(@, EmbeddingRequestCall(body.text))]
                /\ pc' = [pc EXCEPT ![r] = "awaiting"]
                /\ trail' = [trail EXCEPT ![r] = @ \o <<"extract", "handler">>]
                /\ UNCHANGED <<log, resp>>
    /\ UNCHANGED <<config, store, req, upstream>>

\* handle_message up to the await on generate_completion
HandleMessage(r) ==
    /\ pc[r] = "handler"
    /\ UNCHANGED outside
    /\ req[r].path = CHAT
    /\ LET body == req[r].body
       IN  IF body.kind # "json"
           THEN /\ resp' = [resp EXCEPT ![r] = JsonRejection(body)]
                /\ pc' = [pc EXCEPT ![r] = "logging_exit"]
                /\ trail' = [trail EXCEPT ![r] = Append(@, "extract")]
                /\ UNCHANGED <<log, calls>>
           ELSE IF IsBlank(body.text)
           THEN /\ resp' = [resp EXCEPT ![r] = OkJson(ApiError("value", "Message cannot be empty"))]
                /\ pc' = [pc EXCEPT ![r] = "logging_exit"]
                /\ trail' = [trail EXCEPT ![r] = @ \o <<"extract", "handler">>]
                /\ log' = [log EXCEPT ![r] = Append(@,
                             LogRec("error", "Empty message provided", ""))]
                /\ calls' = calls
           ELSE /\ calls' = [calls EXCEPT ![r] = Append(@, ChatRequestCall(body.text))]
                /\ pc' = [pc EXCEPT ![r] = "awaiting"]
                /\ trail' = [trail EXCEPT ![r] = @ \o <<"extract", "handler">>]
                /\ UNCHANGED <<log, resp>>
    /\ UNCHANGED <<config, store, req, upstream>>

\* handle_reset up to the await on delete_all_points (no body extractor)
HandleReset(r) ==
    /\ pc[r] = "handler"
    /\ UNCHANGED outside
    /\ req[r].path = RESET
    /\ calls' = [calls EXCEPT ![r] = Append(@, DeletePointsRequest(config))]
    /\ pc' = [pc EXCEPT ![r] = "awaiting"]
    /\ trail' = [trail EXCEPT ![r] = Append(@, "handler")]
    /\ UNCHANGED <<config, store, req, resp, log, upstream>>

\* the provider answers the call r awaits
ProviderReply(r, embedOut, chatOut) ==
    /\ pc[r] = "awaiting"
    /\ UNCHANGED outside
    /\ req[r].path \in {EMBED, CHAT}
    /\ \E o \in (IF req[r].path = EMBED THEN embedOut ELSE chatOut) :
          upstream' = [upstream EXCEPT ![r] = o]
    /\ pc' = [pc EXCEPT ![r] = "resume"]
    /\ UNCHANGED <<config, store, req, resp, trail, log, calls>>

\* the vector store answers the delete r awaits: on success the delete has
\* been applied; a failure may come before or after it was applied.  The
\* outcome also records the points the store removed (the handler never
\* reads it; it is kept to state what a reset did)
VectorStoreReply(r) ==
    /\ pc[r] = "awaiting"
    /\ UNCHANGED outside
    /\ req[r].path = RESET
    /\ \E o \in StoreOutcomes, applied \in BOOLEAN :
          LET call == calls[r][Len(calls[r])]
              after == ApplyDelete(store, call)
          IN  /\ o.kind = "ok" => applied
              /\ upstream' = [upstream EXCEPT ![r] =
                    IF o.kind = "ok"
                    THEN ResultOk([removed |-> store[call.collection] \ after[call.collection]])
                    ELSE o]
              /\ store' = IF applied THEN after ELSE store
    /\ pc' = [pc EXCEPT ![r] = "resume"]
    /\ UNCHANGED <<config, req, resp, trail, log, calls>>

\* mutant of FailUpstream: the failed call is issued again
RetryUpstream(r, msg, cause) ==
    /\ log' = [log EXCEPT ![r] = Append(@, LogRec("error", msg, cause))]
    /\ calls' = [calls EXCEPT ![r] = Append(@, @[Len(@)])]
    /\ pc' = [pc EXCEPT ![r] = "awaiting"]
    /\ resp' = resp

\* the map_err arm of a handler: log the cause, answer 500
FailUpstream(r, msg, cause) ==
    /\ log' = [log EXCEPT ![r] = Append(@, LogRec("error", msg, cause))]
    /\ resp' = [resp EXCEPT ![r] = UpstreamFailureResponse(cause)]
    /\ pc' = [pc EXCEPT ![r] = "logging_exit"]
    /\ calls' = calls

\* the task handling r unwinds: no response is produced
Abort(r) ==
    /\ pc' = [pc EXCEPT ![r] = "aborted"]
    /\ UNCHANGED <<log, resp, calls>>

\* the Ok arm of a handler: log, answer 200 with the success envelope
Succeed(r, msg, data) ==
    /\ log' = [log EXCEPT ![r] = Append(@, LogRec("info", msg, ""))]
    /\ resp' = [resp EXCEPT ![r] = OkJson(ApiSuccess(data))]
    /\ pc' = [pc EXCEPT ![r] = "logging_exit"]
    /\ calls' = calls

\* handle_embed from the await on
HandleEmbedResume(r) ==
    /\ pc[r] = "resume"
    /\ UNCHANGED outside
    /\ req[r].path = EMBED
    /\ LET res == get_embedding(upstream[r])
       IN  CASE res.kind = "err" -> FailUpstream(r, "Failed to generate embedding", res.cause)
             [] res.kind = "panic" -> Abort(r)
             [] OTHER -> Succeed(r, "Successfully generated embedding for text length",
                                 JArray(res.value))
    /\ UNCHANGED <<config, store, req, trail, upstream>>

\* handle_message from the await on
HandleMessageResume(r) ==
    /\ pc[r] = "resume"
    /\ UNCHANGED outside
    /\ req[r].path = CHAT
    /\ LET res == generate_completion(upstream[r])
       IN  CASE res.kind = "err" -> FailUpstream(r, "Failed to generate completion", res.cause)
             [] res.kind = "panic" -> Abort(r)
             [] OTHER -> Succeed(r, "Successfully generated completion",
                                 JObject([message |-> res.value.response,
                                          usage |-> res.value.usage]))
    /\ UNCHANGED <<config, store, req, trail, upstream>>

\* handle_reset from the await on
HandleResetResume(r) ==
    /\ pc[r] = "resume"
    /\ UNCHANGED outside
    /\ req[r].path = RESET
    /\ IF upstream[r].kind = "err"
       THEN FailUpstream(r, "Failed to reset database", upstream[r].cause)
       ELSE Succeed(r, "Database reset successfully",
                    JObject([message |-> "Database reset successfully"]))
    /\ UNCHANGED <<config, store, req, trail, upstream>>

\* logging_middleware after next.run(request): the completion record, then
\* Ok(response)
LoggingExit(r) ==
    /\ pc[r] = "logging_exit"
    /\ UNCHANGED outside
    /\ log' = [log EXCEPT ![r] = Append(@,
                 IF IsSuccess(resp[r].status)
                 THEN LogRec("info", "Request completed successfully", "")
                 ELSE LogRec("error", "Request failed", ""))]
    /\ pc' = [pc EXCEPT ![r] = "done"]
    /\ UNCHANGED <<config, store, req, resp, trail, calls, upstream>>

\* the exchange is over (response written, or connection dropped): the slot
\* is free for the next request
Close(r) ==
    /\ pc[r] \in {"done", "aborted"}
    /\ UNCHANGED outside
    /\ req' = [req EXCEPT ![r] = NoRequest]
    /\ pc' = [pc EXCEPT ![r] = "new"]
    /\ resp' = [resp EXCEPT ![r] = NoResponse]
    /\ trail' = [trail EXCEPT ![r] = <<>>]
    /\ log' = [log EXCEPT ![r] = <<>>]
    /\ calls' = [calls EXCEPT ![r] = <<>>]
    /\ upstream' = [upstream EXCEPT ![r] = NoOutcome]
    /\ UNCHANGED <<config, store>>

\* the steps of a request once received
Step(r) ==
    \/ Router(r)
    \/ LoggingEnter(r)
    \/ AuthMiddleware(r)
    \/ MethodRouter(r)
    \/ HandleEmbed(r)
    \/ HandleMessage(r)
    \/ HandleReset(r)
    \/ VectorStoreReply(r)
    \/ HandleEmbedResume(r)
    \/ HandleMessageResume(r)
    \/ HandleResetResume(r)
    \/ LoggingExit(r)
    \/ Close(r)

Next ==
    \E r \in OneReq :
        \/ Receive(r, AllInputs)
        \/ ProviderReply(r, EmbedOutcomes, ChatOutcomes)
        \/ Step(r)

Spec == Init /\ [][Next]_vars

\* the provider outcomes the concurrent specification draws from: each
\* failure cause, and one reply
ConcEmbedOutcomes ==
    {ResultErr(c) : c \in ErrCauses}
        \cup {ResultOk([data |-> <<[i \in 1..EmbDim |-> 1]>>])}
ConcChatOutcomes ==
    {ResultErr(c) : c \in ErrCauses}
        \cup {ResultOk([choices |-> <<Some("Paris")>>, usage |-> None])}

NextConc ==
    \E r \in ConcReqs :
        \/ Receive(r, ConcInputs)
        \/ ProviderReply(r, ConcEmbedOutcomes, ConcChatOutcomes)
        \/ Step(r)

SpecConc == InitConc /\ [][NextConc]_vars

(* ------------------------------- main.rs ------------------------------- *)
\* what a step of main leaves alone
requests == <<store, req, pc, resp, trail, log, calls, upstream>>

\* let config = Config::from_env()?;
LoadConfig ==
    /\ boot.pc = "start"
    /\ LET res == from_env(env)
       IN  IF res.kind = "err"
           THEN /\ boot' = BootExited(res.cause)
                /\ config' = config
           ELSE /\ boot' = BootAt("configured")
                /\ config' = res.value
    /\ UNCHANGED <<requests, env, conv>>

\* OpenAIService::new(..) and QdrantService::new(..)?: building the vector
\* store client can fail
BuildServices ==
    /\ boot.pc = "configured"
    /\ \E built \in BOOLEAN :
          boot' = IF built THEN BootAt("built")
                           ELSE BootExited("failed to build the vector store client")
    /\ UNCHANGED <<requests, config, env, conv>>

\* TcpListener::bind(addr).await?, then axum::serve
Bind ==
    /\ boot.pc = "built"
    /\ \E bound \in BOOLEAN :
          boot' = IF bound THEN BootAt("listening")
                           ELSE BootExited("address already in use")
    /\ UNCHANGED <<requests, config, env, conv>>

\* the process is started in some environment, over a populated store
InitStartup ==
    /\ env \in Envs
    /\ boot = BootAt("start")
    /\ config = NoConfig
    /\ store = [c \in Collections |-> Points]
    /\ req = [r \in OneReq |-> NoRequest]
    /\ pc = [r \in OneReq |-> "new"]
    /\ resp = [r \in OneReq |-> NoResponse]
    /\ trail = [r \in OneReq |-> <<>>]
    /\ log = [r \in OneReq |-> <<>>]
    /\ calls = [r \in OneReq |-> <<>>]
    /\ upstream = [r \in OneReq |-> NoOutcome]
    /\ conv = NoConversions

NextStartup ==
    \/ LoadConfig
    \/ BuildServices
    \/ Bind
    \/ \E r \in OneReq :
          \/ Receive(r, ConcInputs)
          \/ ProviderReply(r, ConcEmbedOutcomes, ConcChatOutcomes)
          \/ Step(r)

SpecStartup == InitStartup /\ [][NextStartup]_vars

(* ----------------------------- conversions ---------------------------- *)
\* the conversions kept side by side: two, as a collision takes a pair
ConvSlots == {1, 2}

\* json_to_qdrant_value is applied to one more JSON value
Convert ==
    /\ Len(conv) + 1 \in ConvSlots
    /\ \E j \in JsonValues :
          conv' = Append(conv, [input |-> j, output |-> json_to_qdrant_value(j)])
    /\ UNCHANGED <<config, requests, env, boot>>

InitConv == InitWith(OneReq, {MkConfig("secret", "documents")}, {[c \in Collections |-> Points]})

NextConv == Convert

SpecConv == InitConv /\ [][NextConv]_vars

(* ------------------------------ properties ----------------------------- *)
\* the credential of request r is absent, unreadable as a string, or not
\* the configured gateway key character for character
KeyRejected(r) ==
    \/ req[r].header.kind # "text"
    \/ req[r].header.value # config.api_key

Entered(r, stage) == \E i \in 1..Len(trail[r]) : trail[r][i] = stage
Answered(r) == resp[r].status # 0
\* r has been through the authentication stage
PastAuth(r) == Entered(r, "auth")
AllWhitespace(s) == \A i \in 1..Len(s) : s[i] \in {" ", "\n", "\t", "\r"}

\* C1: a request to one of the three routes is answered 401 exactly when its
\* x-api-key is absent, unreadable or not equal (case-sensitively) to the
\* configured key, whatever its body; a request with a bad key gets no
\* further than the authentication stage, and a finished exchange with a
\* bad key has its 401
C1_Unauthorized_Iff_BadKey ==
    \A r \in Reqs :
        req[r].path \in Routes =>
            /\ Answered(r) => (resp[r].status = 401 <=> KeyRejected(r))
            /\ (PastAuth(r) /\ KeyRejected(r)) => resp[r].status = 401
            /\ pc[r] = "done" => Answered(r)

\* C1 witness: a wrong-case key with a malformed body has been answered 401,
\* on a route where the right key would have met the body check
C1_Witness ==
    \E r \in Reqs :
        /\ pc[r] = "done"
        /\ req[r].path = EMBED
        /\ req[r].method = "POST"
        /\ req[r].header = HdrText("SECRET")
        /\ config.api_key = "secret"
        /\ req[r].body = BodySyntax
        /\ resp[r].status = 401

\* C2: a request the authentication stage rejected never reaches the body
\* extractor or a handler, and no upstream call is issued or answered for it
C2_Rejected_Never_Handled ==
    \A r \in Reqs :
        (PastAuth(r) /\ KeyRejected(r)) =>
            /\ ~Entered(r, "extract")
            /\ ~Entered(r, "handler")
            /\ calls[r] = <<>>
            /\ upstream[r] = NoOutcome
            /\ pc[r] \in {"logging_exit", "done"}

\* C2 witness: a rejected POST to the reset route is over, and nothing was
\* deleted on its behalf
C2_Witness ==
    \E r \in Reqs :
        /\ pc[r] = "done"
        /\ req[r].path = RESET
        /\ req[r].method = "POST"
        /\ KeyRejected(r)
        /\ resp[r].status = 401
        /\ calls[r] = <<>>
        /\ store[config.collection_name] # {}

\* an authenticated POST to path p carrying a well-formed body
AdmittedJson(r, p) ==
    /\ req[r].path = p
    /\ req[r].method = "POST"
    /\ ~KeyRejected(r)
    /\ req[r].body.kind = "json"

BlankEnvelope(T, msg) ==
    MkResponse(200, [kind |-> "json",
                     json |-> [data |-> IF T = "vec" THEN JArray(<<>>) ELSE JNull,
                               status |-> "error", error |-> msg]])

\* C3: an authenticated embed (chat) request whose text (message) is empty or
\* all whitespace is answered 200 with the error envelope "Text cannot be
\* empty" ("Message cannot be empty") and the default payload, and the
\* provider is never called for it
C3_Blank_Input_Error_Envelope ==
    \A r \in Reqs :
        /\ (AdmittedJson(r, EMBED) /\ AllWhitespace(req[r].body.text)) =>
              /\ calls[r] = <<>>
              /\ upstream[r] = NoOutcome
              /\ pc[r] \in {"router", "logging", "auth", "method", "handler", "logging_exit", "done"}
              /\ pc[r] \in {"logging_exit", "done"} =>
                    resp[r] = BlankEnvelope("vec", "Text cannot be empty")
        /\ (AdmittedJson(r, CHAT) /\ AllWhitespace(req[r].body.text)) =>
              /\ calls[r] = <<>>
              /\ upstream[r] = NoOutcome
              /\ pc[r] \in {"router", "logging", "auth", "method", "handler", "logging_exit", "done"}
              /\ pc[r] \in {"logging_exit", "done"} =>
                    resp[r] = BlankEnvelope("value", "Message cannot be empty")

\* C3 witness: a chat message of whitespace only (not the empty string) has
\* been answered with the error envelope
C3_Witness ==
    \E r \in Reqs :
        /\ pc[r] = "done"
        /\ AdmittedJson(r, CHAT)
        /\ req[r].body.text = <<" ", "\n">>
        /\ resp[r] = BlankEnvelope("value", "Message cannot be empty")
        /\ calls[r] = <<>>

\* C4: a request issues at most one upstream call; once that call has
\* failed the request is not sent upstream again and its next step answers
\* 500
C4_One_Call_No_Retry ==
    \A r \in Reqs :
        /\ Len(calls[r]) <= 1
        /\ upstream[r].kind = "err" =>
              /\ Len(calls[r]) = 1
              /\ pc[r] \in {"resume", "logging_exit", "done"}
              /\ pc[r] # "resume" => resp[r].status = 500
        /\ pc[r] \in {"awaiting", "resume"} => Len(calls[r]) = 1

\* C4 witness: a reset whose delete failed has ended with 500 after one call
C4_Witness ==
    \E r \in Reqs :
        /\ pc[r] = "done"
        /\ req[r].path = RESET
        /\ upstream[r].kind = "err"
        /\ resp[r].status = 500
        /\ Len(calls[r]) = 1

\* C5: when the embedding call of an embed request with non-blank text
\* succeeds with a reply that has a first embedding, the response is 200
\* with a success envelope without error field whose data is that first
\* embedding, element for element, and is not empty
C5_Embed_Success_Envelope ==
    \A r \in Reqs :
        (/\ req[r].path = EMBED
         /\ upstream[r].kind = "ok"
         /\ Len(upstream[r].value.data) > 0
         /\ pc[r] \in {"logging_exit", "done"}) =>
            /\ req[r].body.text # <<>>
            /\ resp[r].status = 200
            /\ resp[r].body.kind = "json"
            /\ resp[r].body.json =
                  [data |-> JArray(upstream[r].value.data[1]), status |-> "success"]
            /\ Len(resp[r].body.json.data.items) > 0

\* C5 witness: the provider sent two different embeddings and the response
\* carries the first, whose elements differ
C5_Witness ==
    \E r \in Reqs :
        /\ pc[r] = "done"
        /\ req[r].path = EMBED
        /\ upstream[r].kind = "ok"
        /\ Len(upstream[r].value.data) = 2
        /\ upstream[r].value.data[1] = <<1, 2>>
        /\ upstream[r].value.data[2] = <<2, 1>>
        /\ resp[r].body.json.data = JArray(<<1, 2>>)

\* C6: a reset issues one delete on the configured collection with a filter
\* without conditions; once that delete has succeeded the collection is
\* empty, and the handler answers 200 with the success envelope whose data
\* is {"message": "Database reset successfully"}
C6_Reset_Deletes_All ==
    \A r \in Reqs :
        req[r].path = RESET =>
            /\ calls[r] # <<>> =>
                  calls[r] = <<[svc |-> "qdrant.delete_points",
                                collection |-> config.collection_name,
                                filter |-> [must |-> {}, must_not |-> {}]]>>
            /\ upstream[r].kind = "ok" =>
                  /\ store[config.collection_name] = {}
                  /\ pc[r] \in {"logging_exit", "done"} =>
                        resp[r] = MkResponse(200, [kind |-> "json",
                                    json |-> [data |-> JObject([message |-> "Database reset successfully"]),
                                              status |-> "success"]])

\* C6 witness: a reset that removed at least one point has been answered
C6_Witness ==
    \E r \in Reqs :
        /\ pc[r] = "done"
        /\ req[r].path = RESET
        /\ upstream[r].kind = "ok"
        /\ upstream[r].value.removed # {}
        /\ store[config.collection_name] = {}
        /\ resp[r].status = 200

\* C7: in every envelope sent, status is "success" or "error", the error
\* field is serialized exactly when status is "error", and an error envelope
\* carries the default of its payload type: the empty list for embed, null
\* for chat
C7_Envelope_Invariant ==
    \A r \in Reqs :
        resp[r].body.kind = "json" =>
            LET j == resp[r].body.json
            IN  /\ j.status \in {"success", "error"}
                /\ ("error" \in DOMAIN j) <=> (j.status = "error")
                /\ j.status = "error" =>
                      j.data = (IF req[r].path = EMBED THEN JArray(<<>>) ELSE JNull)
                /\ {"data", "status"} \subseteq DOMAIN j

\* C7 witness: an error envelope (embed, empty list) has been sent
C7_Witness ==
    \E r \in Reqs :
        /\ resp[r].body.kind = "json"
        /\ resp[r].body.json.status = "error"
        /\ "error" \in DOMAIN resp[r].body.json
        /\ req[r].path = EMBED
        /\ resp[r].body.json.data = JArray(<<>>)

\* C7 second case, kept as a reachability check: a success envelope has
\* been sent, without error field
C7_SuccessSeen ==
    \E r \in Reqs :
        /\ resp[r].body.kind = "json"
        /\ resp[r].body.json.status = "success"
        /\ "error" \notin DOMAIN resp[r].body.json

\* the authentication outcome of r follows from r's own key alone
OwnKeyDecides(r) ==
    PastAuth(r) =>
        /\ resp[r].status = 401 <=> KeyRejected(r)
        /\ KeyRejected(r) => (pc[r] \in {"logging_exit", "done"} /\ ~Entered(r, "handler"))
        /\ ~KeyRejected(r) => pc[r] \in {"method", "handler", "awaiting", "resume",
                                         "logging_exit", "done", "aborted"}

\* C8: with requests interleaved in any order, each request is rejected with
\* 401 or admitted according to its own x-api-key and the configuration
\* alone, and no step of any request changes the shared configuration
C8_Auth_Independent_Of_Others ==
    /\ [](\A r \in Reqs : OwnKeyDecides(r))
    /\ [][config' = config]_vars

\* C8 witness: two requests are in flight at once, one rejected with 401
\* while another, with the valid key, awaits its upstream call
C8_Witness ==
    \E r1, r2 \in Reqs :
        /\ r1 # r2
        /\ KeyRejected(r1)
        /\ resp[r1].status = 401
        /\ pc[r1] = "logging_exit"
        /\ ~KeyRejected(r2)
        /\ pc[r2] = "awaiting"

\* C9 as stated: every finished request with a bad key, whatever its path
\* or method, was answered 401
C9_Original_Every_Path_401 ==
    \A r \in Reqs :
        (pc[r] = "done" /\ KeyRejected(r)) => resp[r].status = 401

\* C9 amended: a finished request to one of the three registered paths,
\* whatever its method, with a bad key was answered 401; a request whose
\* path has no route was answered 404 whatever its key, without entering
\* the logging or authentication stage
C9_Routed_401_Unrouted_404 ==
    \A r \in Reqs :
        pc[r] = "done" =>
            /\ (req[r].path \in Routes /\ KeyRejected(r)) => resp[r].status = 401
            /\ req[r].path \notin Routes => (resp[r].status = 404 /\ trail[r] = <<>>)

\* C9 witness: a request without key to a path that has no route is
\* answered 404
C9_Witness ==
    \E r \in Reqs :
        /\ pc[r] = "done"
        /\ req[r].path \notin Routes
        /\ req[r].header = HdrAbsent
        /\ resp[r].status = 404

\* C9 second case, kept as a reachability check: a GET to a registered path
\* without key is answered 401 (not 405)
C9_GetRejectedSeen ==
    \E r \in Reqs :
        /\ pc[r] = "done"
        /\ req[r].path = CHAT
        /\ req[r].method = "GET"
        /\ req[r].header = HdrAbsent
        /\ resp[r].status = 401

\* r's upstream call failed and r's handler has returned
FailedUpstream(r) == upstream[r].kind = "err" /\ pc[r] \in {"logging_exit", "done"}

\* C10: two requests that are the same but for the cause their upstream
\* call failed with get the same response, 500 with an empty body, and each
\* cause is in the log of its request
C10_Failure_Cause_Not_Visible ==
    \A r1, r2 \in Reqs :
        (FailedUpstream(r1) /\ FailedUpstream(r2) /\ req[r1] = req[r2]) =>
            /\ resp[r1] = resp[r2]
            /\ resp[r1].status = 500
            /\ resp[r1].body = [kind |-> "empty"]
            /\ \E i \in 1..Len(log[r1]) :
                  log[r1][i].level = "error" /\ log[r1][i].detail = upstream[r1].cause

\* C10 witness: two equal requests whose upstream calls failed with
\* different causes have both been answered
C10_Witness ==
    \E r1, r2 \in Reqs :
        /\ r1 # r2
        /\ req[r1] = req[r2]
        /\ pc[r1] = "done"
        /\ pc[r2] = "done"
        /\ upstream[r1].kind = "err"
        /\ upstream[r2].kind = "err"
        /\ upstream[r1].cause # upstream[r2].cause
        /\ resp[r1].status = 500

\* the Config the environment e stands for, with the two defaults
ExpectedConfig(e) ==
    [openai_api_key |-> e["OPENAI_API_KEY"][1],
     qdrant_url |-> IF e["QDRANT_URL"] = None THEN "http://localhost:6333" ELSE e["QDRANT_URL"][1],
     qdrant_api_key |-> e["QDRANT_API_KEY"],
     collection_name |-> IF e["COLLECTION_NAME"] = None THEN "documents" ELSE e["COLLECTION_NAME"][1],
     api_key |-> e["API_KEY"][1]]

RequiredMissing == env["OPENAI_API_KEY"] = None \/ env["API_KEY"] = None

StartupOrder ==
    /\ Listening => (~RequiredMissing /\ config = ExpectedConfig(env))
    /\ boot.pc \in {"configured", "built"} => (~RequiredMissing /\ config = ExpectedConfig(env))
    /\ RequiredMissing => boot.pc \in {"start", "exited"}
    /\ boot.pc = "exited" => boot.err # ""
    /\ boot.err = "environment variable not found" => RequiredMissing
    /\ ~Listening => \A r \in Reqs : pc[r] = "new" /\ resp[r] = NoResponse

\* C11: the port is bound only from the state in which the configuration is
\* loaded and both clients are built; with OPENAI_API_KEY or API_KEY unset,
\* or the vector store client not built, main exits with an error, stays
\* exited, and never binds the port or receives a request; unset QDRANT_URL
\* and COLLECTION_NAME become "http://localhost:6333" and "documents", and an
\* unset QDRANT_API_KEY becomes no credential
C11_Startup_Before_Bind ==
    /\ []StartupOrder
    /\ [][Listening' => (Listening \/ boot.pc = "built")]_vars
    /\ [][boot.pc = "exited" => boot' = boot]_vars
    /\ [][boot'.pc = "built" => boot.pc \in {"configured", "built"}]_vars

\* C11 witness: with only the two required variables set the server listens
\* with the defaults and has answered a request
C11_Witness ==
    /\ Listening
    /\ env["QDRANT_URL"] = None
    /\ env["COLLECTION_NAME"] = None
    /\ env["QDRANT_API_KEY"] = None
    /\ config.qdrant_url = "http://localhost:6333"
    /\ config.collection_name = "documents"
    /\ config.qdrant_api_key = None
    /\ \E r \in Reqs : pc[r] = "done" /\ resp[r].status = 200

\* C11 second case, kept as a reachability check: main has exited because
\* API_KEY is unset
C11_ExitSeen ==
    /\ boot.pc = "exited"
    /\ env["API_KEY"] = None
    /\ env["OPENAI_API_KEY"] # None

LogHas(r, msg) == \E i \in 1..Len(log[r]) : log[r][i].msg = msg
LogCount(r, msgs) == Cardinality({i \in 1..Len(log[r]) : log[r][i].msg \in msgs})
IsPrefix(a, b) == Len(a) <= Len(b) /\ \A i \in 1..Len(a) : a[i] = b[i]

\* C12 as stated: the stages run in the order authentication, logging,
\* handler, so the logging stage is entered only by a request that passed
\* the authentication check, and a request answered 401 has no 'Incoming
\* request' record
C12_Original_Auth_Before_Logging ==
    \A r \in Reqs :
        /\ Entered(r, "logging") => (Entered(r, "auth") /\ ~KeyRejected(r))
        /\ resp[r].status = 401 => ~LogHas(r, "Incoming request")

\* C12 amended: a request to a registered path passes the stages in the
\* order logging, authentication, handler; the 'Incoming request' record is
\* the first record of the request, written before the authentication
\* check, so a request answered 401 has the entry record, the warning of
\* the authentication stage and, once over, the 'Request failed' record
C12_Logging_Before_Auth ==
    \A r \in Reqs :
        /\ \/ IsPrefix(trail[r], <<"logging", "auth", "extract", "handler">>)
           \/ IsPrefix(trail[r], <<"logging", "auth", "handler">>)
        /\ Entered(r, "handler") => ~KeyRejected(r)
        /\ trail[r] # <<>> => (log[r] # <<>> /\ log[r][1] = LogRec("info", "Incoming request", ""))
        /\ (req[r].path \in Routes /\ pc[r] \notin {"new", "router", "logging"}) =>
              LogHas(r, "Incoming request")
        /\ resp[r].status = 401 =>
              /\ log[r][1].msg = "Incoming request"
              /\ log[r][2].level = "warn"
              /\ pc[r] = "done" =>
                    (Len(log[r]) = 3 /\ log[r][3] = LogRec("error", "Request failed", ""))

\* C12 witness: a request without key has been answered 401 and its first
\* log record is the entry record of the logging stage
C12_Witness ==
    \E r \in Reqs :
        /\ pc[r] = "done"
        /\ req[r].header = HdrAbsent
        /\ resp[r].status = 401
        /\ trail[r] = <<"logging", "auth">>
        /\ log[r][1].msg = "Incoming request"
        /\ log[r][2].msg = "Missing API key in request to"

CompletionMsgs == {"Request completed successfully", "Request failed"}

\* C13 (stated for the requests to a registered path; a path without route
\* passes no logging stage at all): once the exchange is over the log of
\* the request holds exactly one entry record and exactly one completion
\* record, the latter of error severity exactly when the response status is
\* not a success
C13_Logging_Exactly_Once ==
    \A r \in Reqs :
        (req[r].path \in Routes /\ pc[r] \in {"done", "aborted"}) =>
            /\ LogCount(r, {"Incoming request"}) = 1
            /\ LogCount(r, CompletionMsgs) = 1
            /\ \A i \in 1..Len(log[r]) :
                  log[r][i].msg \in CompletionMsgs =>
                      (log[r][i].level = "error" <=> ~IsSuccess(resp[r].status))

\* the provider answered an authenticated request with non-blank input
NonBlankAdmitted(r) ==
    /\ (AdmittedJson(r, EMBED) \/ AdmittedJson(r, CHAT))
    /\ ~AllWhitespace(req[r].body.text)

\* C16: an authenticated embed or chat request with non-blank input never
\* ends without a response, whatever the provider returned: once its
\* handler is through, the response is a 200 success envelope or a 500
C16_Always_A_Response ==
    \A r \in Reqs :
        NonBlankAdmitted(r) =>
            /\ pc[r] # "aborted"
            /\ pc[r] \in {"logging_exit", "done"} =>
                  \/ resp[r].status = 500
                  \/ (resp[r].status = 200 /\ resp[r].body.kind = "json"
                        /\ resp[r].body.json.status = "success")

\* ---- the conversion of JSON values ----
\* every integer of the JSON value lies in the signed range
RECURSIVE InSignedRange(_)
InSignedRange(j) ==
    CASE j.t = "number" -> j.n.kind = "float" \/ (I64Min <= j.n.v /\ j.n.v <= I64Max)
      [] j.t = "array" -> \A i \in 1..Len(j.items) : InSignedRange(j.items[i])
      [] j.t = "object" -> \A k \in DOMAIN j.fields : InSignedRange(j.fields[k])
      [] OTHER -> TRUE

\* the JSON value a reader of the structured value writes back: an integer
\* value as an integer number, a double as a floating number
RECURSIVE BackToJson(_)
BackToJson(q) ==
    CASE q.kind = "NullValue" -> JNull
      [] q.kind = "BoolValue" -> JBool(q.bool_value)
      [] q.kind = "IntegerValue" ->
            JNumber(IF q.integer_value < 0 THEN NegInt(q.integer_value)
                    ELSE PosInt(q.integer_value))
      [] q.kind = "DoubleValue" -> JNumber(Float(q.double_value))
      [] q.kind = "StringValue" -> JString(q.string_value)
      [] q.kind = "ListValue" -> JArray([i \in 1..Len(q.values) |-> BackToJson(q.values[i])])
      [] OTHER -> JObject([k \in DOMAIN q.fields |-> BackToJson(q.fields[k])])

RoundTrips(c) == BackToJson(c.output) = c.input
Converted == {conv[i] : i \in DOMAIN conv}

\* C14 as stated: every JSON value, the integers beyond the signed range
\* included, is reproduced by converting it and converting the result back,
\* and no two JSON values are converted to the same structured value.
C14_Original_Round_Trip_Everywhere ==
    /\ \A c \in Converted : RoundTrips(c)
    /\ \A c, d \in Converted : c.output = d.output => c.input = d.input

\* C14 (amended): a JSON value whose integers all lie in the signed 64-bit
\* range is reproduced (shape, key set, array contents in order, integer or
\* floating kind of each number) by converting it and converting the result
\* back, and two such values are never converted to the same structured value.
C14_Round_Trip_In_Signed_Range ==
    /\ \A c \in Converted : InSignedRange(c.input) => RoundTrips(c)
    /\ \A c, d \in Converted :
          (InSignedRange(c.input) /\ InSignedRange(d.input) /\ c.output = d.output)
              => c.input = d.input

C14_Witness ==
    /\ Len(conv) = 2
    /\ conv[1].input = JsonExample
    /\ BackToJson(conv[1].output) = JsonExample
    /\ conv[2].input = JNumber(PosInt(I64Max))
    /\ conv[2].output = QInteger(I64Max)

\* the structured value q is the variant matching the JSON value j
RECURSIVE MatchingVariant(_, _)
MatchingVariant(j, q) ==
    CASE j.t = "null" -> q = QNull
      [] j.t = "bool" -> q = QBool(j.b)
      [] j.t = "number" ->
            IF j.n.kind # "float" /\ I64Min <= j.n.v /\ j.n.v <= I64Max
            THEN q = QInteger(j.n.v)
            ELSE /\ q.kind = "DoubleValue"
                 /\ j.n.kind = "float" => q.double_value = j.n.v
      [] j.t = "string" -> q = QString(j.s)
      [] j.t = "array" ->
            /\ q.kind = "ListValue"
            /\ Len(q.values) = Len(j.items)
            /\ \A i \in 1..Len(j.items) : MatchingVariant(j.items[i], q.values[i])
      [] OTHER ->
            /\ q.kind = "StructValue"
            /\ DOMAIN q.fields = DOMAIN j.fields
            /\ \A k \in DOMAIN j.fields : MatchingVariant(j.fields[k], q.fields[k])

====
